---------------------------- MODULE Spec2Model ----------------------------
(***************************************************************************)
(* Bagula Platform ingestion API (src/platform/app/main.py).               *)
(*                                                                         *)
(* The module models the HTTP boundary: the verify_api_key dependency, the *)
(* ingest_sessions, get_platform_metrics and health_check handlers, and    *)
(* the startup / shutdown hooks.  Handlers are coroutines on one event     *)
(* loop: a handler runs without interruption from one await to the next,   *)
(* so every action below is the block of code between two awaits.          *)
(*                                                                         *)
(* Strings the code inspects (the Authorization header) are sequences of   *)
(* one-character strings, so startswith, slicing and len are computed.     *)
(***************************************************************************)
EXTENDS Naturals, Sequences, FiniteSets

VARIABLES
    app,        \* lifecycle position of the process
    ready,      \* the event loop's FIFO of callbacks that are ready to run
    workers,    \* state of the task created for queue_manager.start_workers()
    accepting,  \* the server accepts requests
    req,        \* per request: route, header, body, position in its handler
    log,        \* per request: the collaborator calls it issued and their returns
    resp,       \* per request: the HTTP response, once produced
    stored,     \* session ids held by the session store
    queue,      \* session ids waiting in the analysis queue
    taken,      \* per session id: how many queue entries workers have taken
    life,       \* the calls shutdown_event issued and their returns
    authIn,     \* SpecAuth: the request under test (route, header)
    authOut     \* SpecAuth: what dependency resolution did with it

vars == <<app, ready, workers, accepting, req, log, resp, stored, queue, taken,
          life, authIn, authOut>>

mainVars == <<app, ready, workers, accepting, req, log, resp, stored, queue,
              taken, life>>

authVars == <<authIn, authOut>>

---------------------------------------------------------------------------
(* Bounds *)

\* Longest token (text after the prefix) tried in an Authorization header.
MaxTokenLen == 12

\* Longest sessions list of an ingest request.
MaxBatch == 2

\* The concurrently served requests.
Reqs == {"r1", "r2"}

\* Session ids that occur in request bodies.
SessionIds == {"s1", "s2"}

\* str(e) of the exceptions the collaborators raise.
ExcMsgs == {"db down", "queue full"}

---------------------------------------------------------------------------
(* Strings *)

Rep(c, n) == [i \in 1..n |-> c]

\* str.startswith
StartsWith(s, p) == Len(s) >= Len(p) /\ SubSeq(s, 1, Len(p)) = p

\* s[k:] for 0 <= k
SliceFrom(s, k) == SubSeq(s, k + 1, Len(s))

BearerPrefix == <<"B", "e", "a", "r", "e", "r", " ">>

\* The number of characters verify_api_key cuts off the header.
PrefixCut == 7

\* The shortest token verify_api_key accepts.
MinKeyLen == 10

---------------------------------------------------------------------------
(* Requests and responses *)

NoHeader == [present |-> FALSE, value |-> <<>>]

HeaderOf(s) == [present |-> TRUE, value |-> s]

HTTPException(code, detail) ==
    [kind |-> "HTTPException", status |-> code, detail |-> detail]

\* FastAPI's answer when a required parameter (Header(...)) is missing.
RequestValidationError ==
    [kind |-> "RequestValidationError", status |-> 422, detail |-> "Field required"]

NoResp == [kind |-> "none", status |-> 0]

IngestResponse(n) ==
    [kind |-> "IngestResponse", status |-> 200, success |-> TRUE,
     sessions_received |-> n, message |-> <<"Successfully received", n, "session(s)">>]

AuthRoutes ==
    {"ingest", "get_session", "list_agent_sessions", "get_agent_metrics",
     "get_agent_regressions", "get_agent_anomalies"}

OpenRoutes == {"health", "metrics"}

\* verify_api_key with the length test off by one (a key of exactly
\* MinKeyLen characters is refused).
VerifyApiKeyOffByOne(authorization) ==
    IF ~StartsWith(authorization, BearerPrefix)
    THEN [ok |-> FALSE, exc |-> HTTPException(401, "Invalid authorization header")]
    ELSE LET api_key == SliceFrom(authorization, PrefixCut)
         IN  IF api_key = <<>> \/ Len(api_key) <= MinKeyLen
             THEN [ok |-> FALSE, exc |-> HTTPException(401, "Invalid API key")]
             ELSE [ok |-> TRUE, api_key |-> api_key]

\* verify_api_key: the dependency's result, or the HTTPException it raises.
VerifyApiKey(authorization) ==
    IF ~StartsWith(authorization, BearerPrefix)
    THEN [ok |-> FALSE, exc |-> HTTPException(401, "Invalid authorization header")]
    ELSE LET api_key == SliceFrom(authorization, PrefixCut)
         IN  IF api_key = <<>> \/ Len(api_key) < MinKeyLen
             THEN [ok |-> FALSE, exc |-> HTTPException(401, "Invalid API key")]
             ELSE [ok |-> TRUE, api_key |-> api_key]

\* Dependency resolution of a route: a missing required header is a
\* validation error, a raising dependency ends the request with its
\* HTTPException, and only otherwise is the handler body entered.
SolveDependencies(route, header) ==
    IF route \in OpenRoutes
    THEN [run |-> TRUE, api_key |-> <<>>]
    ELSE IF ~header.present
         THEN [run |-> FALSE, resp |-> RequestValidationError]
         ELSE LET v == VerifyApiKey(header.value)
              IN  IF v.ok
                  THEN [run |-> TRUE, api_key |-> v.api_key]
                  ELSE [run |-> FALSE, resp |-> v.exc]

---------------------------------------------------------------------------
(* Specification SpecAuth: dependency resolution of one request, over a   *)
(* family of Authorization headers.                                        *)

AuthPrefixes ==
    { BearerPrefix,
      <<"b", "e", "a", "r", "e", "r", " ">>,
      <<"B", "e", "a", "r", "e", "r">>,
      <<"B", "a", "s", "i", "c", " ">>,
      <<" ">> \o BearerPrefix,
      <<>> }

AuthHeaders ==
    { HeaderOf(p \o Rep(c, n)) :
        p \in AuthPrefixes, c \in {"k", " "}, n \in 0..MaxTokenLen }
    \cup {NoHeader}

AuthPending == [done |-> FALSE, ran |-> FALSE, api_key |-> <<>>, resp |-> NoResp]

\* The framework resolves the route's dependencies and enters the handler
\* body only when none of them raised.
AuthDispatch ==
    /\ ~authOut.done
    /\ LET d == SolveDependencies(authIn.route, authIn.header)
       IN  authOut' = IF d.run
                      THEN [done |-> TRUE, ran |-> TRUE, api_key |-> d.api_key,
                            resp |-> NoResp]
                      ELSE [done |-> TRUE, ran |-> FALSE, api_key |-> <<>>,
                            resp |-> d.resp]
    /\ UNCHANGED <<authIn, mainVars>>

---------------------------------------------------------------------------
(* The collaborators (app.database.SessionStore, app.queue.QueueManager):  *)
(* what their calls do to the store and the queue.                         *)

\* The agent a session belongs to (AgentSession.agent_name).
AgentOf(sid) == "agent-1"

Session(sid) == [session_id |-> sid, agent_name |-> AgentOf(sid)]

\* The session_id of every session of a list, in order.
Ids(sessions) == [k \in 1..Len(sessions) |-> sessions[k].session_id]

\* SessionStore.store_sessions, when it returns: the whole batch is stored.
StoreSessions(st, sessions) == st \cup {sessions[k].session_id : k \in 1..Len(sessions)}

\* QueueManager.enqueue_session_analysis, when it returns.
EnqueueSessionAnalysis(q, sid) == Append(q, sid)

\* SessionStore.count_sessions
CountSessions == Cardinality(stored)

\* SessionStore.count_active_agents
CountActiveAgents == Cardinality({AgentOf(sid) : sid \in stored})

\* QueueManager.get_queue_size
GetQueueSize == Len(queue)

---------------------------------------------------------------------------
(* Call records *)

Call(op, sessions, key) ==
    [ev |-> "call", op |-> op, sessions |-> sessions, api_key |-> key]

Ret(op, value) == [ev |-> "return", op |-> op, value |-> value]

Raise(op, msg) == [ev |-> "raise", op |-> op, msg |-> msg]

IdleReq ==
    [pc |-> "idle", route |-> "none", header |-> NoHeader, sessions |-> <<>>,
     api_key |-> <<>>, i |-> 0]

HealthResponse ==
    [kind |-> "health", status |-> 200, state |-> "healthy",
     service |-> "bagula-platform", version |-> "0.1.0"]

\* get_platform_metrics with two of its values under each other's key.
MetricsResponseSwapped(vals) ==
    [kind |-> "metrics", status |-> 200, sessions_processed |-> vals[1],
     queue_size |-> vals[3], active_agents |-> vals[2]]

\* The dict get_platform_metrics returns, from the three awaited results
\* in the order they were awaited.
MetricsResponse(vals) ==
    [kind |-> "metrics", status |-> 200, sessions_processed |-> vals[1],
     queue_size |-> vals[2], active_agents |-> vals[3]]

---------------------------------------------------------------------------
(* Requests served by specification Spec *)

ServedRoutes == {"ingest", "metrics", "health"}

ShortToken == Rep("k", 5)

GoodToken == Rep("k", MinKeyLen)

ServedHeaders ==
    {NoHeader, HeaderOf(BearerPrefix \o ShortToken), HeaderOf(BearerPrefix \o GoodToken)}

\* The sessions lists of ingest bodies: every list of at most MaxBatch sessions.
Batches ==
    UNION {[1..n -> {Session(sid) : sid \in SessionIds}] : n \in 0..MaxBatch}

Done(r) == req[r].pc = "done"

---------------------------------------------------------------------------
(* Startup *)

\* startup_event that leaves the worker task to be created after the
\* server's continuation has been queued.
StartupEventServeFirst ==
    /\ app = "init"
    /\ ready' = ready \o <<"serve", "start_workers">>
    /\ workers' = "scheduled"
    /\ app' = "started"
    /\ UNCHANGED <<accepting, req, log, resp, stored, queue, taken, life, authVars>>

\* startup_event: create_task puts the first step of start_workers on the
\* loop's ready queue and returns; the hook has no await, so the server's
\* continuation (which opens the listening socket) is queued behind it.
StartupEvent ==
    /\ app = "init"
    /\ ready' = ready \o <<"start_workers", "serve">>
    /\ workers' = "scheduled"
    /\ app' = "started"
    /\ UNCHANGED <<accepting, req, log, resp, stored, queue, taken, life, authVars>>

\* One iteration of the event loop: the callback at the head of the ready
\* queue runs.
RunReady ==
    /\ ready # <<>>
    /\ ready' = Tail(ready)
    /\ IF Head(ready) = "start_workers"
       THEN /\ workers' = "running"
            /\ UNCHANGED <<accepting, app>>
       ELSE /\ accepting' = TRUE
            /\ app' = "serving"
            /\ UNCHANGED workers
    /\ UNCHANGED <<req, log, resp, stored, queue, taken, life, authVars>>

---------------------------------------------------------------------------
(* Request handling *)

\* A request arrives (with a body that parses as IngestRequest, on the
\* ingest route): its dependencies are resolved and, when none raised,
\* the handler runs up to its first await.
\*   ingest_sessions: up to await session_store.store_sessions(...)
\*   get_platform_metrics: up to await session_store.count_sessions()
\*   health_check: to its return
Receive(r) ==
    /\ accepting
    /\ req[r].pc = "idle"
    /\ \E route \in ServedRoutes, header \in ServedHeaders, sessions \in Batches :
         /\ route # "ingest" => sessions = <<>>
         /\ LET d == SolveDependencies(route, header)
                rq == [IdleReq EXCEPT !.route = route, !.header = header,
                                      !.sessions = sessions]
            IN  IF ~d.run
                THEN /\ req' = [req EXCEPT ![r] = [rq EXCEPT !.pc = "done"]]
                     /\ resp' = [resp EXCEPT ![r] = d.resp]
                     /\ UNCHANGED log
                ELSE IF route = "ingest"
                THEN /\ req' = [req EXCEPT ![r] = [rq EXCEPT !.pc = "store_sessions",
                                                             !.api_key = d.api_key]]
                     /\ log' = [log EXCEPT ![r] =
                                  <<Call("store_sessions", sessions, d.api_key)>>]
                     /\ UNCHANGED resp
                ELSE IF route = "metrics"
                THEN /\ req' = [req EXCEPT ![r] = [rq EXCEPT !.pc = "count_sessions"]]
                     /\ log' = [log EXCEPT ![r] = <<Call("count_sessions", <<>>, <<>>)>>]
                     /\ UNCHANGED resp
                ELSE /\ req' = [req EXCEPT ![r] = [rq EXCEPT !.pc = "done"]]
                     /\ resp' = [resp EXCEPT ![r] = HealthResponse]
                     /\ UNCHANGED log
    /\ UNCHANGED <<app, ready, workers, accepting, stored, queue, taken, life, authVars>>

\* What ingest_sessions does once every call of the loop has been made (or
\* the batch is empty): the success response.
IngestFinish(r, lg) ==
    /\ req' = [req EXCEPT ![r].pc = "done"]
    /\ log' = [log EXCEPT ![r] = lg]
    /\ resp' = [resp EXCEPT ![r] = IngestResponse(Len(req[r].sessions))]

\* ingest_sessions with an except clause that swallows the exception and
\* falls through to the success response.
IngestFailSwallowed(r, lg, msg) ==
    /\ req' = [req EXCEPT ![r].pc = "done"]
    /\ log' = [log EXCEPT ![r] = lg]
    /\ resp' = [resp EXCEPT ![r] = IngestResponse(Len(req[r].sessions))]

\* What ingest_sessions does when an awaited call raised e: the except
\* clause answers 500 with str(e).
IngestFail(r, lg, msg) ==
    /\ req' = [req EXCEPT ![r].pc = "done"]
    /\ log' = [log EXCEPT ![r] = lg]
    /\ resp' = [resp EXCEPT ![r] = HTTPException(500, msg)]

\* ingest_sessions iterating over the batch from its end.
IngestEnqueueReversed(r, lg, k) ==
    /\ req' = [req EXCEPT ![r].pc = "enqueue", ![r].i = k]
    /\ log' = [log EXCEPT ![r] = Append(lg,
                 Call("enqueue_session_analysis",
                      <<req[r].sessions[Len(req[r].sessions) + 1 - k]>>, <<>>))]
    /\ UNCHANGED resp

\* ingest_sessions issues the call of the loop's k-th iteration and
\* suspends in it.
IngestEnqueue(r, lg, k) ==
    /\ req' = [req EXCEPT ![r].pc = "enqueue", ![r].i = k]
    /\ log' = [log EXCEPT ![r] = Append(lg,
                 Call("enqueue_session_analysis",
                      <<req[r].sessions[k]>>, <<>>))]
    /\ UNCHANGED resp

\* ingest_sessions that goes on to the enqueue loop when store_sessions
\* raised.
StoreReturnIgnoreFailure(r) ==
    /\ req[r].pc = "store_sessions"
    /\ \/ /\ stored' = StoreSessions(stored, req[r].sessions)
          /\ LET lg == Append(log[r], Ret("store_sessions", 0))
             IN  IF Len(req[r].sessions) = 0
                 THEN IngestFinish(r, lg)
                 ELSE IngestEnqueue(r, lg, 1)
       \/ /\ \E msg \in ExcMsgs :
               LET lg == Append(log[r], Raise("store_sessions", msg))
               IN  IF Len(req[r].sessions) = 0
                   THEN IngestFinish(r, lg)
                   ELSE IngestEnqueue(r, lg, 1)
          /\ UNCHANGED stored
    /\ UNCHANGED <<app, ready, workers, accepting, queue, taken, life, authVars>>

\* await session_store.store_sessions(sessions, api_key) completes: it
\* returns (the batch is stored) or raises (nothing is stored).  The handler
\* goes on to the first enqueue call, or to its response.
StoreReturn(r) ==
    /\ req[r].pc = "store_sessions"
    /\ \/ /\ stored' = StoreSessions(stored, req[r].sessions)
          /\ LET lg == Append(log[r], Ret("store_sessions", 0))
             IN  IF Len(req[r].sessions) = 0
                 THEN IngestFinish(r, lg)
                 ELSE IngestEnqueue(r, lg, 1)
       \/ /\ \E msg \in ExcMsgs :
               IngestFail(r, Append(log[r], Raise("store_sessions", msg)), msg)
          /\ UNCHANGED stored
    /\ UNCHANGED <<app, ready, workers, accepting, queue, taken, life, authVars>>

\* ingest_sessions that, when an enqueue call raises, takes the batch's
\* earlier entries back out of the queue.
EnqueueReturnRollback(r) ==
    /\ req[r].pc = "enqueue"
    /\ LET k == req[r].i
           sid == req[r].sessions[k].session_id
           Other(x) == \A j \in 1..Len(req[r].sessions) :
                           req[r].sessions[j].session_id # x
       IN  \/ /\ queue' = EnqueueSessionAnalysis(queue, sid)
              /\ LET lg == Append(log[r], Ret("enqueue_session_analysis", 0))
                 IN  IF k = Len(req[r].sessions)
                     THEN IngestFinish(r, lg)
                     ELSE IngestEnqueue(r, lg, k + 1)
           \/ /\ \E msg \in ExcMsgs :
                   IngestFail(r, Append(log[r],
                                 Raise("enqueue_session_analysis", msg)), msg)
              /\ queue' = SelectSeq(queue, Other)
    /\ UNCHANGED <<app, ready, workers, accepting, stored, taken, life, authVars>>

\* await queue_manager.enqueue_session_analysis(session.session_id)
\* completes: it returns (the id is queued) or raises (it is not).  The
\* handler goes on to the next session, or to its response.
EnqueueReturn(r) ==
    /\ req[r].pc = "enqueue"
    /\ LET k == req[r].i
           sid == req[r].sessions[k].session_id
       IN  \/ /\ queue' = EnqueueSessionAnalysis(queue, sid)
              /\ LET lg == Append(log[r], Ret("enqueue_session_analysis", 0))
                 IN  IF k = Len(req[r].sessions)
                     THEN IngestFinish(r, lg)
                     ELSE IngestEnqueue(r, lg, k + 1)
           \/ /\ \E msg \in ExcMsgs :
                   IngestFail(r, Append(log[r],
                                 Raise("enqueue_session_analysis", msg)), msg)
              /\ UNCHANGED queue
    /\ UNCHANGED <<app, ready, workers, accepting, stored, taken, life, authVars>>

\* The values get_platform_metrics has been handed so far.
Results(lg) ==
    LET idx == {k \in 1..Len(lg) : lg[k].ev = "return"}
        F[n \in 0..Len(lg)] ==
            IF n = 0 THEN <<>>
            ELSE IF n \in idx THEN Append(F[n - 1], lg[n].value) ELSE F[n - 1]
    IN  F[Len(lg)]

\* get_platform_metrics: one of its three awaits completes with the
\* collaborator's current value; the handler awaits the next one or returns.
\* The three calls are reads that return an int; the handler has no except
\* clause, so only returning calls are modelled here.
MetricsStep(r) ==
    /\ req[r].pc \in {"count_sessions", "get_queue_size", "count_active_agents"}
    /\ LET value == IF req[r].pc = "count_sessions" THEN CountSessions
                    ELSE IF req[r].pc = "get_queue_size" THEN GetQueueSize
                    ELSE CountActiveAgents
           lg == Append(log[r], Ret(req[r].pc, value))
       IN  IF req[r].pc = "count_sessions"
           THEN /\ req' = [req EXCEPT ![r].pc = "get_queue_size"]
                /\ log' = [log EXCEPT ![r] = Append(lg, Call("get_queue_size", <<>>, <<>>))]
                /\ UNCHANGED resp
           ELSE IF req[r].pc = "get_queue_size"
           THEN /\ req' = [req EXCEPT ![r].pc = "count_active_agents"]
                /\ log' = [log EXCEPT ![r] =
                             Append(lg, Call("count_active_agents", <<>>, <<>>))]
                /\ UNCHANGED resp
           ELSE /\ req' = [req EXCEPT ![r].pc = "done"]
                /\ log' = [log EXCEPT ![r] = lg]
                /\ resp' = [resp EXCEPT ![r] = MetricsResponse(Results(lg))]
    /\ UNCHANGED <<app, ready, workers, accepting, stored, queue, taken, life, authVars>>

\* A running worker takes the session at the head of the queue.
WorkerTake ==
    /\ workers = "running"
    /\ queue # <<>>
    /\ queue' = Tail(queue)
    /\ taken' = [taken EXCEPT ![Head(queue)] = @ + 1]
    /\ UNCHANGED <<app, ready, workers, accepting, req, log, resp, stored, life, authVars>>

---------------------------------------------------------------------------
(* Shutdown *)

\* The server stops accepting, its requests in flight finish, and
\* shutdown_event runs up to await queue_manager.stop_workers().
ShutdownEvent ==
    /\ app = "serving"
    /\ \A r \in Reqs : req[r].pc \in {"idle", "done"}
    /\ accepting' = FALSE
    /\ app' = "stop_workers"
    /\ life' = <<Call("stop_workers", <<>>, <<>>)>>
    /\ UNCHANGED <<ready, workers, req, log, resp, stored, queue, taken, authVars>>

\* shutdown_event that closes the store in a finally clause, so also when
\* stop_workers raised.
StopWorkersReturnFinally ==
    /\ app = "stop_workers"
    /\ \/ /\ workers' = "stopped"
          /\ life' = life \o <<Ret("stop_workers", 0), Call("close", <<>>, <<>>)>>
       \/ /\ \E msg \in ExcMsgs :
               life' = life \o <<Raise("stop_workers", msg), Call("close", <<>>, <<>>)>>
          /\ UNCHANGED workers
    /\ app' = "close"
    /\ UNCHANGED <<ready, accepting, req, log, resp, stored, queue, taken, authVars>>

\* await queue_manager.stop_workers() completes: on return shutdown_event
\* goes on to await session_store.close(); an exception leaves the hook.
StopWorkersReturn ==
    /\ app = "stop_workers"
    /\ \/ /\ workers' = "stopped"
          /\ life' = life \o <<Ret("stop_workers", 0), Call("close", <<>>, <<>>)>>
          /\ app' = "close"
       \/ /\ \E msg \in ExcMsgs : life' = Append(life, Raise("stop_workers", msg))
          /\ app' = "shutdown_failed"
          /\ UNCHANGED workers
    /\ UNCHANGED <<ready, accepting, req, log, resp, stored, queue, taken, authVars>>

\* await session_store.close() completes.
CloseReturn ==
    /\ app = "close"
    /\ \/ /\ life' = Append(life, Ret("close", 0))
          /\ app' = "stopped"
       \/ /\ \E msg \in ExcMsgs : life' = Append(life, Raise("close", msg))
          /\ app' = "shutdown_failed"
    /\ UNCHANGED <<ready, workers, accepting, req, log, resp, stored, queue, taken, authVars>>

---------------------------------------------------------------------------
(* Specifications *)

Init ==
    /\ app = "init"
    /\ ready = <<>>
    /\ workers = "none"
    /\ accepting = FALSE
    /\ req = [r \in Reqs |-> IdleReq]
    /\ log = [r \in Reqs |-> <<>>]
    /\ resp = [r \in Reqs |-> NoResp]
    /\ stored = {}
    /\ queue = <<>>
    /\ taken = [sid \in SessionIds |-> 0]
    /\ life = <<>>
    /\ authIn = [route |-> "none", header |-> NoHeader]
    /\ authOut = AuthPending

Next ==
    \/ StartupEvent
    \/ RunReady
    \/ \E r \in Reqs : Receive(r)
    \/ \E r \in Reqs : StoreReturn(r)
    \/ \E r \in Reqs : EnqueueReturn(r)
    \/ \E r \in Reqs : MetricsStep(r)
    \/ WorkerTake
    \/ ShutdownEvent
    \/ StopWorkersReturn
    \/ CloseReturn

Spec == Init /\ [][Next]_vars

InitAuth ==
    /\ app = "init"
    /\ ready = <<>>
    /\ workers = "none"
    /\ accepting = FALSE
    /\ req = [r \in Reqs |-> IdleReq]
    /\ log = [r \in Reqs |-> <<>>]
    /\ resp = [r \in Reqs |-> NoResp]
    /\ stored = {}
    /\ queue = <<>>
    /\ taken = [sid \in SessionIds |-> 0]
    /\ life = <<>>
    /\ authIn \in [route : AuthRoutes \cup OpenRoutes, header : AuthHeaders]
    /\ authOut = AuthPending

NextAuth == AuthDispatch

SpecAuth == InitAuth /\ [][NextAuth]_vars

---------------------------------------------------------------------------
(* Properties *)

\* The header carries "Bearer " and a token of at least 10 characters.
Accepted(h) ==
    /\ h.present
    /\ Len(h.value) >= 17
    /\ \A k \in 1..7 : h.value[k] = BearerPrefix[k]

\* An ingest request that passed authentication.
AuthedIngest(r) ==
    req[r].pc # "idle" /\ req[r].route = "ingest" /\ Accepted(req[r].header)

EventsOf(lg, ev, op) ==
    LET Is(e) == e.ev = ev /\ e.op = op IN SelectSeq(lg, Is)

Raised(lg) == \E k \in 1..Len(lg) : lg[k].ev = "raise"

\* The session ids of the enqueue calls of a log, in the order issued.
EnqueuedIds(lg) ==
    LET c == EventsOf(lg, "call", "enqueue_session_analysis")
    IN  [k \in 1..Len(c) |-> c[k].sessions[1].session_id]

Count(seq, x) == Cardinality({k \in 1..Len(seq) : seq[k] = x})

\* How many enqueue calls for sid returned, over all requests: the calls
\* of a log that are directly followed by a return.
EnqueuedOk(sid) ==
    Cardinality({p \in Reqs \X (1..(2 * MaxBatch + 2)) :
        LET lg == log[p[1]]
            k == p[2]
        IN  /\ k < Len(lg)
            /\ lg[k].ev = "call"
            /\ lg[k].op = "enqueue_session_analysis"
            /\ lg[k].sessions[1].session_id = sid
            /\ lg[k + 1].ev = "return"})

\* C1: on an auth-required route, a request that carries an Authorization
\* header reaches the handler, with the token, exactly when the header
\* starts with "Bearer " and the text after those 7 characters has length
\* >= 10; every other header is answered 401 and the handler is not run.
C1_VerifyApiKeyContract ==
    (authOut.done /\ authIn.route \in AuthRoutes /\ authIn.header.present) =>
        LET h == authIn.header.value
        IN  IF Accepted(authIn.header)
            THEN /\ authOut.ran
                 /\ authOut.api_key = [k \in 1..(Len(h) - 7) |-> h[k + 7]]
            ELSE /\ ~authOut.ran
                 /\ authOut.resp.status = 401

\* C1 witness: a 10-character token was accepted on the ingest route.
C1_Witness ==
    /\ authOut.done /\ authOut.ran
    /\ authIn.route = "ingest"
    /\ Len(authOut.api_key) = 10

\* C2 (as claimed): an ingest request without an Authorization header is
\* answered 401 and causes no store or queue call.
C2_MissingHeaderIs401 ==
    \A r \in Reqs :
        (Done(r) /\ req[r].route = "ingest" /\ ~req[r].header.present) =>
            (resp[r].status = 401 /\ log[r] = <<>>)

\* C3 (as claimed): an authenticated ingest of N sessions (a non-empty
\* batch) with no failing call answers {success: true, sessions_received: N}
\* after exactly N store calls and N enqueue calls, one per session in
\* batch order.
C3_NStoreCalls ==
    \A r \in Reqs :
        (Done(r) /\ AuthedIngest(r) /\ ~Raised(log[r]) /\ req[r].sessions # <<>>) =>
            LET n == Len(req[r].sessions)
            IN  /\ resp[r].kind = "IngestResponse"
                /\ resp[r].success /\ resp[r].sessions_received = n
                /\ Len(EventsOf(log[r], "call", "store_sessions")) = n
                /\ EnqueuedIds(log[r]) = Ids(req[r].sessions)

\* C3 (amended): an authenticated ingest of N sessions with no failing call
\* answers {success: true, sessions_received: N} after exactly one
\* store_sessions call, which carries the N sessions in batch order and the
\* token, and exactly N enqueue calls, one per session in batch order.
C3_OneStoreCallNEnqueues ==
    \A r \in Reqs :
        (Done(r) /\ AuthedIngest(r) /\ ~Raised(log[r])) =>
            LET n == Len(req[r].sessions)
            IN  /\ resp[r].kind = "IngestResponse"
                /\ resp[r].status = 200
                /\ resp[r].success /\ resp[r].sessions_received = n
                /\ EventsOf(log[r], "call", "store_sessions")
                     = <<Call("store_sessions", req[r].sessions,
                              SliceFrom(req[r].header.value, 7))>>
                /\ Len(EventsOf(log[r], "return", "store_sessions")) = 1
                /\ EnqueuedIds(log[r]) = Ids(req[r].sessions)
                /\ Len(EventsOf(log[r], "return", "enqueue_session_analysis")) = n

\* C3 witness: a batch of two sessions was answered with success.
C3_Witness ==
    \E r \in Reqs :
        /\ Done(r) /\ AuthedIngest(r)
        /\ Len(req[r].sessions) = 2
        /\ resp[r].kind = "IngestResponse"

\* C4: a success response is produced only when store_sessions and every
\* enqueue call of the batch returned; when any of them raises, the request
\* is answered 500 with the exception's string as detail and no success
\* response; and no response exists while the handler is still running.
C4_AllOrNothing ==
    \A r \in Reqs :
        AuthedIngest(r) =>
            /\ ~Done(r) => resp[r] = NoResp
            /\ resp[r].kind = "IngestResponse" =>
                 /\ ~Raised(log[r])
                 /\ Len(EventsOf(log[r], "return", "store_sessions")) = 1
                 /\ Len(EventsOf(log[r], "return", "enqueue_session_analysis"))
                      = Len(req[r].sessions)
            /\ \A k \in 1..Len(log[r]) :
                 log[r][k].ev = "raise" =>
                     /\ Done(r)
                     /\ resp[r] = HTTPException(500, log[r][k].msg)

\* C4 witness: the second enqueue call raised "queue full" and the request
\* was answered 500 with that text.
C4_Witness ==
    \E r \in Reqs :
        /\ Done(r) /\ AuthedIngest(r)
        /\ req[r].i = 2
        /\ log[r][Len(log[r])] = Raise("enqueue_session_analysis", "queue full")
        /\ resp[r].status = 500 /\ resp[r].detail = "queue full"

\* The calls of an ingest request whose k-th enqueue call raised msg.
FailedAtLog(sessions, key, k, msg) ==
    LET F[j \in 0..k] ==
          IF j = 0
          THEN <<Call("store_sessions", sessions, key), Ret("store_sessions", 0)>>
          ELSE F[j - 1] \o
               <<Call("enqueue_session_analysis", <<sessions[j]>>, <<>>),
                 IF j = k THEN Raise("enqueue_session_analysis", msg)
                          ELSE Ret("enqueue_session_analysis", 0)>>
    IN  F[k]

EnqueueFailed(r) ==
    /\ Done(r) /\ AuthedIngest(r)
    /\ log[r] # <<>>
    /\ log[r][Len(log[r])].ev = "raise"
    /\ log[r][Len(log[r])].op = "enqueue_session_analysis"

\* C5: when store_sessions succeeded and the k-th enqueue call raised, then
\* from the end of the request on: all N sessions are stored; the request's
\* calls are the store call, the k-1 enqueue calls that returned and the one
\* that raised, and nothing else (no call for sessions k+1..N, no
\* compensating call); every queue entry made is still queued or was taken
\* by a worker; and the response is 500.
C5_NoRollback ==
    /\ \A r \in Reqs :
         EnqueueFailed(r) =>
             LET k == Len(EventsOf(log[r], "call", "enqueue_session_analysis"))
                 msg == log[r][Len(log[r])].msg
             IN  /\ k \in 1..Len(req[r].sessions)
                 /\ log[r] = FailedAtLog(req[r].sessions, req[r].api_key, k, msg)
                 /\ \A j \in 1..Len(req[r].sessions) :
                      req[r].sessions[j].session_id \in stored
                 /\ resp[r].status = 500
    /\ \A sid \in SessionIds : Count(queue, sid) + taken[sid] = EnqueuedOk(sid)

\* C5 witness: the second enqueue call of a batch of two raised while the
\* first session is still queued.
C5_Witness ==
    \E r \in Reqs :
        /\ EnqueueFailed(r)
        /\ Len(req[r].sessions) = 2 /\ req[r].i = 2
        /\ Count(queue, req[r].sessions[1].session_id) >= 1

\* C6: no request is in a handler, and the server accepts none, before the
\* task running start_workers has begun.
C6_WorkersBeforeRequests ==
    /\ accepting => workers = "running"
    /\ \A r \in Reqs : req[r].pc # "idle" => workers \in {"running", "stopped"}

\* C6 witness: an ingest handler is suspended in an enqueue call.
C6_Witness ==
    \E r \in Reqs : req[r].pc = "enqueue" /\ workers = "running"

\* C7: shutdown_event calls session_store.close only directly after
\* stop_workers returned, with the workers stopped; when stop_workers
\* raises, close is never called.
C7_StopBeforeClose ==
    /\ \A k \in 1..Len(life) :
         (life[k].ev = "call" /\ life[k].op = "close") =>
             /\ k > 1
             /\ life[k - 1] = Ret("stop_workers", 0)
             /\ workers = "stopped"
    /\ (\E k \in 1..Len(life) : life[k].ev = "raise" /\ life[k].op = "stop_workers")
         => /\ EventsOf(life, "call", "close") = <<>>
            /\ app = "shutdown_failed"

\* C7 witness: the store was closed.
C7_Witness ==
    app = "stopped" /\ life[Len(life)] = Ret("close", 0)

C9_EmptyBatchRefused ==
    \A r \in Reqs :
        (AuthedIngest(r) /\ req[r].sessions = <<>>) =>
            /\ resp[r].kind # "IngestResponse"
            /\ EventsOf(log[r], "call", "store_sessions") = <<>>

\* C10: in every interleaving, a request's calls alternate call / outcome
\* (one call at a time); its first call is store_sessions for the whole
\* batch; the j-th enqueue call comes directly after the return (not the
\* raise) of store_sessions or of the (j-1)-th enqueue call and carries the
\* j-th session id; and a request whose store_sessions raised issues no
\* enqueue call.
C10_StoreBeforeEnqueue ==
    \A r \in Reqs :
        AuthedIngest(r) =>
            /\ log[r] # <<>>
            /\ log[r][1] = Call("store_sessions", req[r].sessions, req[r].api_key)
            /\ \A k \in 1..Len(log[r]) :
                 /\ (k % 2 = 1) <=> (log[r][k].ev = "call")
                 /\ (k % 2 = 0) => log[r][k].op = log[r][k - 1].op
                 /\ (k > 1 /\ log[r][k].ev = "call") =>
                      /\ log[r][k].op = "enqueue_session_analysis"
                      /\ log[r][2] = Ret("store_sessions", 0)
                      /\ log[r][k - 1].ev = "return"
                      /\ log[r][k].sessions = <<req[r].sessions[(k - 1) \div 2]>>
            /\ (Len(log[r]) >= 2 /\ log[r][2].ev = "raise") => Len(log[r]) = 2

\* C10 witness: two requests are suspended in enqueue calls at once, one in
\* its second call while the other is in its first.
C10_Witness ==
    /\ req["r1"].pc = "enqueue" /\ req["r1"].i = 2
    /\ req["r2"].pc = "enqueue" /\ req["r2"].i = 1

=============================================================================
